---- MODULE Spec2Model ----
(***************************************************************************)
(* The document vision-extraction pipeline of tools/OcrTool.py: one        *)
(* invocation of OcrTool.run as a state machine, one action per pipeline   *)
(* stage, with the pure helpers (get_file_path, checktype, get_llm_model,  *)
(* build_messages, read_structured_output, get_prompt) as operators.       *)
(*                                                                         *)
(* Python values: a text is a sequence of string fragments (concatenation  *)
(* is \o); None and str values that are tested for truthiness are the      *)
(* records None and Str(s).  Everything outside the repository (the file   *)
(* system, filetype, pypdfium2, PIL, find_similar_reference, load of a     *)
(* schema module, the chat model) answers nondeterministically inside the  *)
(* action that calls it.                                                   *)
(***************************************************************************)
EXTENDS Integers, Sequences, FiniteSets, TLC

\* ------------------------------------------------------------------ bounds
\* Largest page count of a PDF given to the pipeline.
MaxPages == 3
\* Number of distinct values os.urandom(16).hex() is drawn from.
NumTokens == 2
\* Number of OCRAdvancedTool invocations that may overlap in the process.
NumInvocations == 2

\* ------------------------------------------------------------ Python values
None == [t |-> "None", v |-> <<>>]
Str(s) == [t |-> "str", v |-> s]
\* bool(x) for None and str values
Truthy(x) == x.t # "None" /\ x.v # <<>>

StartsWith(s, p) == Len(s) >= Len(p) /\ SubSeq(s, 1, Len(p)) = p

\* Model names, one character per element so that str.startswith is computed.
GPT5_MINI == <<"g", "p", "t", "-", "5", "-", "m", "i", "n", "i">>
GPT_4O == <<"g", "p", "t", "-", "4", "o">>
GEMINI_FLASH == <<"g", "e", "m", "i", "n", "i", "-", "2">>
O3_MODEL == <<"o", "3">>
PFX_GPT5 == <<"g", "p", "t", "-", "5">>
PFX_GPT == <<"g", "p", "t", "-">>
PFX_GEMINI == <<"g", "e", "m", "i", "n", "i">>

DEFAULT_MODEL == GPT5_MINI
DEFAULT_PROVIDER == Str(<<"openai">>)

GET_JSON_PROMPT == <<"GET_JSON_PROMPT">>
GET_JSON_WITH_REFERENCE_PROMPT == <<"GET_JSON_WITH_REFERENCE_PROMPT: the first image is the REFERENCE">>

MIME_JPEG == "image/jpeg"
MIME_PNG == "image/png"
MIME_WEBP == "image/webp"
MIME_GIF == "image/gif"
MIME_PDF == "application/pdf"
MIME_TIFF == "image/tiff"
MIME_NONE == "None"
\* SUPPORTED_MIME_FORMATS.values()
SUPPORTED_MIME_FORMATS == {MIME_JPEG, MIME_PNG, MIME_WEBP, MIME_GIF, MIME_PDF}

\* ------------------------------------------------------------- file system
\* A path: the directory it lies in, the random token of a temp file (0 for
\* a file the pipeline did not create) and the rest of its name.
Path(dir, uuid, name) == [dir |-> dir, uuid |-> uuid, name |-> name]
\* "/app" + rel_path, ".." + rel_path, rel_path
CandApp == Path("/app", 0, "doc")
CandParent == Path("..", 0, "doc")
CandRaw == Path("", 0, "doc")
Candidates == <<CandApp, CandParent, CandRaw>>

VARIABLES
    pc,                   \* position of the invocation in run
    agent_id,             \* self.agent_id
    input_params,         \* the dict given to run
    env_ocr_model,        \* COPILOT_OCRTOOL_MODEL
    extra_info,           \* ThreadContext extra_info
    files,                \* paths that exist as regular files
    dirs,                 \* paths that exist as directories
    openai_model,
    provider,
    ocr_image_url,
    mime,
    base64_images,
    filenames_to_delete,
    first_image_for_search,
    reference_image_path,
    reference_image_base64,
    question,
    structured_schema,
    force_compat,
    messages,
    exc,                  \* the exception raised inside the try block, if any
    ret,                  \* what run hands to its caller
    calls,                \* calls made to external collaborators, in order
    created,              \* temp files written by this invocation
    removeFailed,         \* registered paths whose os.remove raised
    drawn,                \* tokens os.urandom has handed out in this process
    peer_pc,              \* position of a concurrent invocation
    peer_files,           \* temp files the concurrent invocation wrote and registered
    peer_reads,           \* temp files the concurrent invocation read back
    peer_removed,         \* paths the concurrent invocation's cleanup removed
    adv,                  \* the OCRAdvancedTool.run invocations, one record each
    umask                 \* the file mode creation mask of the process

inputs == <<agent_id, input_params, env_ocr_model, extra_info>>
disk == <<files, dirs>>
locals == <<openai_model, provider, ocr_image_url, mime, base64_images,
            filenames_to_delete, first_image_for_search, reference_image_path,
            reference_image_base64, question, structured_schema, force_compat,
            messages>>
outcome == <<exc, ret>>
history == <<calls, created, removeFailed>>
peer == <<peer_pc, peer_files, peer_reads, peer_removed>>
advanced == <<adv, umask>>
vars == <<pc, inputs, disk, locals, outcome, history, drawn, peer, advanced>>

Exists(p) == p \in files \cup dirs
IsFile(p) == p \in files

Range(s) == {s[i] : i \in 1..Len(s)}

\* ------------------------------------------------------------ exceptions
NoExc == [type |-> "", msg |-> <<>>]
Exc(type, msg) == [type |-> type, msg |-> msg]
\* The classes the stages raise; every one derives from Exception.
ExceptionSubclasses ==
    {"FileNotFoundError", "ValueError", "OSError", "PdfiumError",
     "SyntaxError", "RuntimeError", "APIError"}

\* A handler that names the two input errors only.
CatchesInputErrorsOnly(type) == type \in {"FileNotFoundError", "ValueError"}

\* `except Exception as e` of run
Catches(type) == type \in ExceptionSubclasses

NoResult == [kind |-> "none", value |-> <<>>]
\* {"error": f"An error occurred: {e}"}
ErrorResult(e) == [kind |-> "error", value |-> <<"An error occurred: ">> \o e.msg]
\* A message that does not say what is missing.
AGENT_ID_ERROR_UNNAMED == <<"OcrTool is not properly configured.">>

AGENT_ID_ERROR ==
    <<"OcrTool requires ", "agent_id", " to access the reference database. ",
      "Please ensure the tool is properly configured with an agent.">>

\* ------------------------------------------------------------ get_llm_model
OCR_TOOL_ID == "EB58EEA0AA804C219C4D64260550745A"

\* extra_info.get("tool_config").get(agent_id).get(OCR_TOOL_ID); a .get on
\* None raises AttributeError, which get_llm_model catches.
LookupRaises(extra, agent) ==
    \/ extra.kind = "raises"
    \/ extra.kind = "dict" /\ (~extra.has_tool_config \/ agent \notin extra.agents)

ToolsConfigFound(extra, agent) ==
    /\ extra.kind = "dict"
    /\ ~LookupRaises(extra, agent)
    /\ OCR_TOOL_ID \in extra.tools

\* A selection that reads the per-agent configuration first and the
\* environment variable only when the configuration names no model.
get_llm_model_config_first(env, extra, agent) ==
    LET found == ToolsConfigFound(extra, agent)
        model_name == IF found THEN extra.model ELSE None
        prov == IF found THEN extra.provider ELSE None
    IN  IF model_name # None THEN <<model_name.v, prov>>
        ELSE IF Truthy(env)
        THEN <<env.v, IF StartsWith(env.v, PFX_GEMINI) THEN Str(<<"gemini">>) ELSE Str(<<"openai">>)>>
        ELSE <<DEFAULT_MODEL, DEFAULT_PROVIDER>>

get_llm_model(env, extra, agent) ==
    IF Truthy(env)
    THEN <<env.v, IF StartsWith(env.v, PFX_GEMINI) THEN Str(<<"gemini">>) ELSE Str(<<"openai">>)>>
    ELSE LET found == ToolsConfigFound(extra, agent)
             model_name == IF found THEN extra.model ELSE None
             prov == IF found THEN extra.provider ELSE None
         IN  IF model_name = None
             THEN <<DEFAULT_MODEL, DEFAULT_PROVIDER>>
             ELSE <<model_name.v, prov>>

\* -------------------------------------------------- get_file_path, checktype
\* The path get_file_path settles on before its is_file test.
ResolveCandidate(fset, dset) ==
    LET c1 == CandApp
        c2 == IF c1 \notin fset \cup dset THEN CandParent ELSE c1
        c3 == IF c2 \notin fset \cup dset THEN CandRaw ELSE c2
    IN  c3

get_file_path_raises(fset, dset) == ResolveCandidate(fset, dset) \notin fset

\* read_mime: filetype.guess raising or finding nothing gives None
read_mime(guess) == IF guess.kind = "mime" THEN guess.mime ELSE MIME_NONE

\* A test that lets a falsy MIME value through: `if mime and mime not in ...`
checktype_raises_on_truthy_only(m) == m # MIME_NONE /\ m \notin SUPPORTED_MIME_FORMATS

checktype_raises(m) == m \notin SUPPORTED_MIME_FORMATS

\* The items of the SUPPORTED_MIME_FORMATS dict, in insertion order.
SUPPORTED_MIME_FORMATS_ITEMS ==
    << <<"JPEG", MIME_JPEG>>, <<"JPG", MIME_JPEG>>, <<"PNG", MIME_PNG>>,
       <<"WEBP", MIME_WEBP>>, <<"GIF", MIME_GIF>>, <<"PDF", MIME_PDF>> >>

\* str() of a dict of strings: {'k': 'v', 'k': 'v', ...}
RECURSIVE ReprItems(_)
ReprItems(items) ==
    IF items = <<>> THEN <<>>
    ELSE <<"'", items[1][1], "': '", items[1][2], "'">>
         \o (IF Len(items) > 1 THEN <<", ">> ELSE <<>>)
         \o ReprItems(Tail(items))
DictRepr(items) == <<"{">> \o ReprItems(items) \o <<"}">>

checktype_message(url, m) ==
    <<"File ", url.dir, "/doc", " invalid file format with mime ", m,
      ". Supported formats: ">> \o DictRepr(SUPPORTED_MIME_FORMATS_ITEMS) \o <<".">>

\* ------------------------------------------------------------ rasterization
B64Encode(bytes) == Str(<<[b64_of |-> bytes]>>)
B64Decode(s) == s.v[1].b64_of
Pixels(src, page) == [src |-> src, page |-> page]
\* PIL save(format="JPEG", quality=85, optimize=True)
JpegBytes(pixels) == [fmt |-> "JPEG", quality |-> 85, pixels |-> pixels]
\* the bytes of the file as they are on disk
FileBytes(url) == [fmt |-> "file", quality |-> 0, pixels |-> Pixels("file", 0)]

pil_image_to_base64(pixels) == B64Encode(JpegBytes(pixels))
image_to_base64(url) == B64Encode(FileBytes(url))

\* A page loop that walks the document from its last page to its first.
recopile_files_last_page_first(m, url, n_pages) ==
    IF m = MIME_PDF
    THEN [i \in 1..n_pages |-> pil_image_to_base64(Pixels("pdf", n_pages + 1 - i))]
    ELSE IF m # MIME_JPEG
         THEN <<pil_image_to_base64(Pixels("rgb", 0))>>
         ELSE <<image_to_base64(url)>>

\* recopile_files on a document that opens and renders: the encoded images
recopile_files(m, url, n_pages) ==
    IF m = MIME_PDF
    THEN [i \in 1..n_pages |-> pil_image_to_base64(Pixels("pdf", i))]
    ELSE IF m # MIME_JPEG
         THEN <<pil_image_to_base64(Pixels("rgb", 0))>>
         ELSE <<image_to_base64(url)>>

\* -------------------------------------------------------- build_messages
SYS_CONTENT == <<"You are an agent specializing in OCR.">>
REFERENCE_INTRO == <<"I will send you an image as an example of a REFERENCE">>
ASSISTANT_ACK == <<"Understood. Now please send me the real images">>

TextMessage(role, text) == [role |-> role, kind |-> "text", content |-> text]
PartsMessage(role, parts) == [role |-> role, kind |-> "parts", content |-> parts]

DataUrl(m, b64) == [mime |-> m, encoding |-> "base64", data |-> b64]

\* One shape for every provider, the one with the "detail" field.
get_image_payload_item_one_shape(img_b64, m, prov) ==
    [type |-> "image_url", image_url |-> [url |-> DataUrl(m, img_b64), detail |-> "high"]]

get_image_payload_item(img_b64, m, prov) ==
    IF prov = Str(<<"gemini">>)
    THEN [type |-> "image_url", image_url |-> [url |-> DataUrl(m, img_b64)]]
    ELSE [type |-> "image_url",
          image_url |-> [url |-> DataUrl(m, img_b64), detail |-> "high"]]

\* The exchange without the assistant's acknowledgement.
ReferenceExchangeNoAck(ref_b64, prov) ==
    IF Truthy(ref_b64)
    THEN << TextMessage("user", REFERENCE_INTRO),
            PartsMessage("user", <<get_image_payload_item(ref_b64, MIME_JPEG, prov)>>) >>
    ELSE <<>>

ReferenceExchange(ref_b64, prov) ==
    IF Truthy(ref_b64)
    THEN << TextMessage("user", REFERENCE_INTRO),
            PartsMessage("user", <<get_image_payload_item(ref_b64, MIME_JPEG, prov)>>),
            TextMessage("assistant", ASSISTANT_ACK) >>
    ELSE <<>>

ImageMessages(images, prov) ==
    [i \in 1..Len(images) |->
        PartsMessage("user", <<get_image_payload_item(images[i], MIME_JPEG, prov)>>)]

\* The order the docstring announces: the question after the images.
build_messages_question_last(images, q, ref_b64, extra_system_content, prov) ==
    LET sys_content == IF Truthy(extra_system_content)
                       THEN SYS_CONTENT \o <<"\n">> \o extra_system_content.v
                       ELSE SYS_CONTENT
    IN  <<TextMessage("system", sys_content)>>
        \o ReferenceExchange(ref_b64, prov)
        \o ImageMessages(images, prov)
        \o <<TextMessage("user", q)>>

build_messages(images, q, ref_b64, extra_system_content, prov) ==
    LET sys_content == IF Truthy(extra_system_content)
                       THEN SYS_CONTENT \o <<"\n">> \o extra_system_content.v
                       ELSE SYS_CONTENT
    IN  <<TextMessage("system", sys_content)>>
        \o ReferenceExchange(ref_b64, prov)
        \o <<TextMessage("user", q)>>
        \o ImageMessages(images, prov)

\* ------------------------------------- read_structured_output, get_prompt
EXPECTED_SCHEMA_MARKER == "Expected output JSON schema for structured output: "
EmptyDict == [title |-> <<>>]
\* structured_schema.model_json_schema()
model_json_schema(schema) == [title |-> schema.v]
\* json.dumps(schema_json, ensure_ascii=False, indent=2)
json_dumps(d) == IF d = EmptyDict THEN <<"{}">> ELSE <<"{", "title: ">> \o d.title \o <<"}">>

\* The method leaving the system prompt as it was given.
read_structured_output_unchanged(extra_system, compat, schema, json_raises) ==
    extra_system

read_structured_output(extra_system, compat, schema, json_raises) ==
    IF compat /\ Truthy(schema)
    THEN LET schema_json == IF json_raises THEN EmptyDict ELSE model_json_schema(schema)
         IN  Str(<<EXPECTED_SCHEMA_MARKER>> \o json_dumps(schema_json))
    ELSE extra_system

\* A default prompt that always speaks of a reference image.
get_prompt_always_reference(ref_b64, ref_path) == GET_JSON_WITH_REFERENCE_PROMPT

get_prompt(ref_b64, ref_path) ==
    IF Truthy(ref_path) \/ Truthy(ref_b64)
    THEN GET_JSON_WITH_REFERENCE_PROMPT
    ELSE GET_JSON_PROMPT

\* ----------------------------------------------------------------- inputs
Absent == [t |-> "absent", v |-> <<>>]
NoPath == Path("", 0, "")
USER_QUESTION == <<"Extract invoice number, date and total">>
INVOICE == <<"Invoice">>
TEMPLATE_PATH == <<"/refs/template.png">>
\* the matched template's image, as the vector store returns it
TemplateB64 == B64Encode(JpegBytes(Pixels("template", 0)))

AgentIds == {"", "agent1"}

InputParams ==
    [question : {Absent, Str(USER_QUESTION)},
     structured_output : {None, Str(INVOICE)},
     force_structured_output_compat : BOOLEAN,
     disable_threshold_filter : BOOLEAN]

ExtraInfo(kind, has, agents, tools, m, prov) ==
    [kind |-> kind, has_tool_config |-> has, agents |-> agents, tools |-> tools,
     model |-> m, provider |-> prov]

ExtraInfos ==
    { ExtraInfo("raises", FALSE, {}, {}, None, None),
      ExtraInfo("none", FALSE, {}, {}, None, None),
      ExtraInfo("dict", FALSE, {}, {}, None, None),
      ExtraInfo("dict", TRUE, {"agent2"}, {OCR_TOOL_ID}, Str(GPT_4O), Str(<<"openai">>)),
      ExtraInfo("dict", TRUE, {"agent1"}, {"OTHER_TOOL"}, Str(GPT_4O), Str(<<"openai">>)),
      ExtraInfo("dict", TRUE, {"agent1"}, {OCR_TOOL_ID}, None, Str(<<"openai">>)),
      ExtraInfo("dict", TRUE, {"agent1"}, {OCR_TOOL_ID}, Str(GPT_4O), Str(<<"openai">>)),
      ExtraInfo("dict", TRUE, {"agent1"}, {OCR_TOOL_ID}, Str(GEMINI_FLASH), Str(<<"gemini">>)),
      ExtraInfo("dict", TRUE, {"agent1"}, {OCR_TOOL_ID}, Str(GEMINI_FLASH), Str(<<"openai">>)),
      ExtraInfo("dict", TRUE, {"agent1"}, {OCR_TOOL_ID}, Str(O3_MODEL), None) }

EnvModels == {None, Str(<<>>), Str(GPT_4O), Str(GPT5_MINI), Str(GEMINI_FLASH)}

\* what each of the three candidate paths is on disk
DiskLayouts ==
    {d \in [files : SUBSET Range(Candidates), dirs : SUBSET Range(Candidates)] :
        d.files \cap d.dirs = {}}

\* filetype.guess(ocr_image_url)
Guesses ==
    {[kind |-> "raises", mime |-> MIME_NONE], [kind |-> "none", mime |-> MIME_NONE]}
    \cup {[kind |-> "mime", mime |-> m] : m \in SUPPORTED_MIME_FORMATS \cup {MIME_TIFF}}

\* find_similar_reference's (path, base64) results
RefResults ==
    { <<None, None>>,
      <<Str(TEMPLATE_PATH), Str(TemplateB64.v)>>,
      <<Str(TEMPLATE_PATH), None>> }

\* --------------------------------------------- OCRAdvancedTool: its state
Invocations == 1..NumInvocations
\* The mask a process starts with, and the one recopile_files sets around a save.
UMASK_DEFAULT == "0o022"
UMASK_PRIVATE == "0o077"

\* The locals of one OCRAdvancedTool.run and of the recopile_files it calls.
AdvLocals(agent) ==
    [pc |-> "start",
     agent_id |-> agent,
     ocr_image_url |-> NoPath,
     mime |-> MIME_NONE,
     n_pages |-> 0,
     page_number |-> 0,
     uuid |-> 0,
     page_image_filename |-> NoPath,
     local_filenames |-> <<>>,       \* filenames_to_delete of prepare_images_for_ocr
     filenames_to_delete |-> <<>>,   \* filenames_to_delete of run
     base64_images |-> <<>>,
     old_umask |-> UMASK_DEFAULT,
     pending |-> NoExc,              \* exception in flight through a finally clause
     searched |-> {},                \* paths given to find_similar_reference
     invoked |-> FALSE,              \* the model has been called
     created |-> {},                 \* files this invocation wrote
     removed |-> {},                 \* paths its cleanup took off the disk
     remove_failed |-> {},           \* paths whose os.remove raised
     exc |-> NoExc,
     ret |-> NoResult]

AdvNotRunning == [AdvLocals("") EXCEPT !.pc = "none"]

NoAdvancedInvocation ==
    /\ adv = [i \in Invocations |-> AdvNotRunning]
    /\ umask = UMASK_DEFAULT

\* ------------------------------------------------------------------- Init
InitLocals ==
    /\ openai_model = <<>>
    /\ provider = None
    /\ ocr_image_url = NoPath
    /\ mime = MIME_NONE
    /\ base64_images = <<>>
    /\ filenames_to_delete = <<>>
    /\ first_image_for_search = NoPath
    /\ reference_image_path = None
    /\ reference_image_base64 = None
    /\ question = <<>>
    /\ structured_schema = None
    /\ force_compat = FALSE
    /\ messages = <<>>
    /\ exc = NoExc
    /\ ret = NoResult
    /\ calls = <<>>
    /\ created = {}
    /\ removeFailed = {}
    /\ drawn = {}
    /\ peer_files = {}
    /\ peer_reads = {}
    /\ peer_removed = {}
    /\ pc = "start"

\* The configurations of the main specification: the model comes either from
\* the environment or from the per-agent configuration, and the document is
\* at one of the candidate paths or at none.
MainModelConfigs ==
    {<<e, ExtraInfo("none", FALSE, {}, {}, None, None)>> : e \in EnvModels}
    \cup {<<None, x>> : x \in ExtraInfos}

MainDiskLayouts ==
    {d \in DiskLayouts : Cardinality(d.files) + Cardinality(d.dirs) <= 1}

Init ==
    /\ InitLocals
    /\ peer_pc = "none"
    /\ NoAdvancedInvocation
    /\ agent_id \in AgentIds
    /\ input_params \in InputParams
    /\ \E c \in MainModelConfigs : env_ocr_model = c[1] /\ extra_info = c[2]
    /\ \E d \in MainDiskLayouts : files = d.files /\ dirs = d.dirs

\* ------------------------------------------------------ run: the try block
Call(op, ok, arg) == [op |-> op, ok |-> ok, arg |-> arg]

\* A handler inside each stage that records the error of resolution or
\* validation and lets run go on with the next stage.
RaiseAndGoOn(e) ==
    /\ exc' = e
    /\ ret' = ErrorResult(e)
    /\ pc' = IF pc = "get_file_path" THEN "read_mime"
             ELSE IF pc = "read_mime" THEN "prepare"
             ELSE "finally"

\* An exception raised inside the try block: the except clause turns it into
\* the {"error": ...} mapping, and control passes to the finally clause.
Raise(e) ==
    /\ exc' = e
    /\ ret' = IF Catches(e.type) THEN ErrorResult(e) ELSE [kind |-> "raise", value |-> e.msg]
    /\ pc' = "finally"

\* The agent_id check at the top of run.
CheckAgent ==
    /\ pc = "start"
    /\ IF agent_id = ""
       THEN /\ ret' = [kind |-> "error", value |-> AGENT_ID_ERROR]
            /\ pc' = "finally"
       ELSE /\ ret' = ret
            /\ pc' = "get_llm_model"
    /\ UNCHANGED <<inputs, disk, locals, exc, history>>
    /\ UNCHANGED <<drawn, peer, advanced>>

\* get_llm_model; get_extra_info is called only past the early return for
\* the environment variable.
SelectModel ==
    /\ pc = "get_llm_model"
    /\ LET r == get_llm_model(env_ocr_model, extra_info, agent_id)
       IN  /\ openai_model' = r[1]
           /\ provider' = r[2]
    /\ calls' = IF Truthy(env_ocr_model) THEN calls
                ELSE Append(calls, Call("get_extra_info", extra_info.kind # "raises", <<>>))
    /\ pc' = "get_file_path"
    /\ UNCHANGED <<inputs, disk, ocr_image_url, mime, base64_images,
                   filenames_to_delete, first_image_for_search, reference_image_path,
                   reference_image_base64, question, structured_schema, force_compat,
                   messages, outcome, created, removeFailed>>
    /\ UNCHANGED <<drawn, peer, advanced>>

ResolveFile ==
    /\ pc = "get_file_path"
    /\ LET c == ResolveCandidate(files, dirs)
       IN  IF get_file_path_raises(files, dirs)
           THEN /\ Raise(Exc("FileNotFoundError",
                             <<"Filename ", c.dir, "/doc doesn't exist">>))
                /\ UNCHANGED ocr_image_url
           ELSE /\ ocr_image_url' = c
                /\ pc' = "read_mime"
                /\ UNCHANGED outcome
    /\ UNCHANGED <<inputs, disk, openai_model, provider, mime, base64_images,
                   filenames_to_delete, first_image_for_search, reference_image_path,
                   reference_image_base64, question, structured_schema, force_compat,
                   messages, history>>
    /\ UNCHANGED <<drawn, peer, advanced>>

\* read_mime followed by checktype
ValidateMime ==
    /\ pc = "read_mime"
    /\ \E guess \in Guesses :
         LET m == read_mime(guess)
         IN  /\ mime' = m
             /\ IF checktype_raises(m)
                THEN Raise(Exc("ValueError", checktype_message(ocr_image_url, m)))
                ELSE pc' = "prepare" /\ UNCHANGED outcome
    /\ UNCHANGED <<inputs, disk, openai_model, provider, ocr_image_url, base64_images,
                   filenames_to_delete, first_image_for_search, reference_image_path,
                   reference_image_base64, question, structured_schema, force_compat,
                   messages, history>>
    /\ UNCHANGED <<drawn, peer, advanced>>

\* The library call with which recopile_files opens a document of this type.
OpenCall(m, opens, n_pages) ==
    IF m = MIME_PDF THEN Call("pdfium.PdfDocument", opens, <<n_pages>>)
    ELSE IF m # MIME_JPEG THEN Call("Image.open", opens, <<>>)
    ELSE Call("open", opens, <<>>)

\* prepare_images_for_ocr: the document opens and renders, or a library call
\* of recopile_files raises.  The render scale changes the pixels of a page
\* only, which no later stage inspects, and is left out.
PrepareImages ==
    /\ pc = "prepare"
    /\ \E opens \in BOOLEAN, n_pages \in 0..MaxPages :
         /\ mime # MIME_PDF => n_pages = 1
         /\ calls' = Append(calls, OpenCall(mime, opens, n_pages))
         /\ IF opens
            THEN /\ base64_images' = recopile_files(mime, ocr_image_url, n_pages)
                 /\ filenames_to_delete' = <<>>
                 /\ pc' = "materialize"
                 /\ UNCHANGED outcome
            ELSE /\ Raise(Exc(IF mime = MIME_PDF THEN "PdfiumError" ELSE "OSError",
                              <<"cannot read the document">>))
                 /\ UNCHANGED <<base64_images, filenames_to_delete>>
    /\ UNCHANGED <<inputs, disk, openai_model, provider, ocr_image_url, mime,
                   first_image_for_search, reference_image_path,
                   reference_image_base64, question, structured_schema, force_compat,
                   messages, created, removeFailed>>
    /\ UNCHANGED <<drawn, peer, advanced>>

\* os.urandom(16).hex(): 128 random bits, taken never to repeat a value
\* already handed out
urandom(out) == (1..NumTokens) \ out

\* A search image named after the document's directory alone.
SearchFileFixedName(url, uuid) == Path(url.dir, 0, "_search.jpeg")

\* f"{os.path.dirname(ocr_image_url)}/{uuid}_search.jpeg"
SearchFile(url, uuid) == Path(url.dir, uuid, "_search.jpeg")

\* The choice of the image handed to the similarity search; for a PDF the
\* first page is written to a temp file, which is registered after the save.
MaterializeSearchFile ==
    /\ pc = "materialize"
    /\ IF mime = MIME_PDF /\ base64_images # <<>>
       THEN \E uuid \in urandom(drawn), saved \in {"ok", "raises_unwritten", "raises_written"} :
              LET temp_search_file == SearchFile(ocr_image_url, uuid)
              IN  /\ drawn' = drawn \cup {uuid}
                  /\ files' = IF saved = "raises_unwritten" THEN files
                              ELSE files \cup {temp_search_file}
                  /\ created' = IF saved = "raises_unwritten" THEN created
                                ELSE created \cup {temp_search_file}
                  /\ IF saved = "ok"
                     THEN /\ first_image_for_search' = temp_search_file
                          /\ filenames_to_delete' = Append(filenames_to_delete, temp_search_file)
                          /\ pc' = "find_reference"
                          /\ UNCHANGED outcome
                     ELSE /\ Raise(Exc("OSError", <<"cannot write the search image">>))
                          /\ UNCHANGED <<first_image_for_search, filenames_to_delete>>
       ELSE /\ first_image_for_search' = ocr_image_url
            /\ pc' = "find_reference"
            /\ UNCHANGED <<files, created, filenames_to_delete, outcome, drawn>>
    /\ UNCHANGED <<inputs, dirs, openai_model, provider, ocr_image_url, mime,
                   base64_images, reference_image_path, reference_image_base64,
                   question, structured_schema, force_compat, messages, calls,
                   removeFailed>>
    /\ UNCHANGED <<peer, advanced>>

\* The call of find_similar_reference, which returns a pair or raises.
FindReference ==
    /\ pc = "find_reference"
    /\ IF first_image_for_search # NoPath /\ Exists(first_image_for_search)
       THEN LET arg == <<first_image_for_search, agent_id,
                         input_params.disable_threshold_filter>>
            IN  \/ \E r \in RefResults :
                     /\ reference_image_path' = r[1]
                     /\ reference_image_base64' = r[2]
                     /\ calls' = Append(calls, Call("find_similar_reference", TRUE, arg))
                     /\ pc' = "select_prompt"
                     /\ UNCHANGED outcome
                \/ /\ calls' = Append(calls, Call("find_similar_reference", FALSE, arg))
                   /\ Raise(Exc("RuntimeError", <<"similarity search failed">>))
                   /\ UNCHANGED <<reference_image_path, reference_image_base64>>
       ELSE /\ pc' = "select_prompt"
            /\ UNCHANGED <<reference_image_path, reference_image_base64, calls, outcome>>
    /\ UNCHANGED <<inputs, disk, openai_model, provider, ocr_image_url, mime,
                   base64_images, filenames_to_delete, first_image_for_search,
                   question, structured_schema, force_compat, messages, created,
                   removeFailed>>
    /\ UNCHANGED <<drawn, peer, advanced>>

\* tools.schemas.load_schema: the class f"{schema_name}Schema" of the module
\* when the registry has it, None otherwise
load_schema(schema_name, in_registry) ==
    IF ~Truthy(schema_name) THEN None
    ELSE IF in_registry THEN Str(schema_name.v \o <<"Schema">>)
    ELSE None

\* get_prompt, the question and the schema named by structured_output
SelectPromptAndSchema ==
    /\ pc = "select_prompt"
    /\ LET default_prompt == get_prompt(reference_image_base64, reference_image_path)
           structured_output_type == input_params.structured_output
       IN  /\ question' = IF input_params.question = Absent
                          THEN default_prompt
                          ELSE input_params.question.v
           /\ IF Truthy(structured_output_type)
              THEN \/ \E in_registry \in BOOLEAN :
                        /\ structured_schema' = load_schema(structured_output_type, in_registry)
                        /\ pc' = "build"
                        /\ UNCHANGED outcome
                   \/ /\ Raise(Exc("SyntaxError", <<"invalid syntax in the schema module">>))
                      /\ UNCHANGED structured_schema
              ELSE /\ structured_schema' = None
                   /\ pc' = "build"
                   /\ UNCHANGED outcome
    /\ UNCHANGED <<inputs, disk, openai_model, provider, ocr_image_url, mime,
                   base64_images, filenames_to_delete, first_image_for_search,
                   reference_image_path, reference_image_base64, force_compat,
                   messages, history>>
    /\ UNCHANGED <<drawn, peer, advanced>>

\* Compatibility mode taken from the caller's flag alone.
compat_mode_flag_only(force, model_name) == force

\* force_compat = force_compat or model_requires_compat
compat_mode(force, model_name) == force \/ StartsWith(model_name, PFX_GPT5)

\* force_compat, read_structured_output and build_messages
BuildConversation ==
    /\ pc = "build"
    /\ LET compat == compat_mode(input_params.force_structured_output_compat, openai_model)
           embeds == compat /\ Truthy(structured_schema)
       IN  /\ force_compat' = compat
           /\ \E json_raises \in BOOLEAN :
                /\ json_raises => embeds
                /\ calls' = IF embeds
                            THEN Append(calls, Call("model_json_schema", ~json_raises,
                                                    <<structured_schema>>))
                            ELSE calls
                /\ messages' = build_messages(
                        base64_images, question, reference_image_base64,
                        read_structured_output(None, compat, structured_schema, json_raises),
                        provider)
    /\ pc' = "invoke"
    /\ UNCHANGED <<inputs, disk, openai_model, provider, ocr_image_url, mime,
                   base64_images, filenames_to_delete, first_image_for_search,
                   reference_image_path, reference_image_base64, question,
                   structured_schema, outcome, created, removeFailed>>
    /\ UNCHANGED <<drawn, peer, advanced>>

\* -------------------------------------------- get_vision_model_response
llm_provider(model_name) ==
    IF StartsWith(model_name, PFX_GPT) THEN Str(<<"openai">>)
    ELSE IF StartsWith(model_name, PFX_GEMINI) THEN Str(<<"gemini">>)
    ELSE None

\* A client created at temperature 1 whatever the model.
llm_temperature_always_one(model_name) == 1

llm_temperature(model_name) == IF StartsWith(model_name, PFX_GPT5) THEN 1 ELSE 0

STRUCTURED_RESPONSE == [kind |-> "structured", value |-> <<"raw", "parsed", "parsing_error">>]
TEXT_RESPONSE == [kind |-> "text", value |-> <<"content of the model's reply">>]

\* What the collaborators do in one call of get_vision_model_response: whether
\* get_llm, with_structured_output, the structured invoke and the plain invoke
\* return (TRUE) or raise (FALSE).
LlmBehaviours == [llm : BOOLEAN, wrap : BOOLEAN, sinvoke : BOOLEAN, invoke : BOOLEAN]

\* The wrapper asked for whenever compatibility mode is off, schema or not.
UseNativeWrapperWithoutSchema(schema, compat) == ~compat
\* if structured_schema and not force_compat
UseNativeWrapper(schema, compat) == Truthy(schema) /\ ~compat

\* An unstructured invocation that is made a second time when the first raised.
UnstructuredInvocationRetried(msgs, o) ==
    [calls |-> IF o.invoke THEN <<Call("invoke", TRUE, msgs)>>
               ELSE <<Call("invoke", FALSE, msgs), Call("invoke", TRUE, msgs)>>,
     exc |-> NoExc,
     ret |-> TEXT_RESPONSE]

\* The default unstructured invocation at the end of the function.
UnstructuredInvocation(msgs, o) ==
    [calls |-> <<Call("invoke", o.invoke, msgs)>>,
     exc |-> IF o.invoke THEN NoExc ELSE Exc("APIError", <<"model invocation failed">>),
     ret |-> IF o.invoke THEN TEXT_RESPONSE ELSE NoResult]

\* The function without its try/except around the native path: what the
\* wrapper raises leaves the function.
get_vision_model_response_no_fallback(msgs, model_name, schema, compat, o) ==
    LET llm_call == Call("get_llm", o.llm,
                         <<llm_provider(model_name), llm_temperature(model_name)>>)
        wrap_call == Call("with_structured_output", o.wrap, <<schema>>)
        sinvoke_call == Call("structured_invoke", o.sinvoke, msgs)
        fallback == UnstructuredInvocation(msgs, o)
    IN  IF ~o.llm
        THEN [calls |-> <<llm_call>>,
              exc |-> Exc("RuntimeError", <<"cannot create the model client">>),
              ret |-> NoResult]
        ELSE IF UseNativeWrapper(schema, compat)
        THEN IF ~o.wrap
             THEN [calls |-> <<llm_call, wrap_call>>,
                   exc |-> Exc("APIError", <<"structured output is not supported">>),
                   ret |-> NoResult]
             ELSE IF ~o.sinvoke
             THEN [calls |-> <<llm_call, wrap_call, sinvoke_call>>,
                   exc |-> Exc("APIError", <<"structured invocation failed">>),
                   ret |-> NoResult]
             ELSE [calls |-> <<llm_call, wrap_call, sinvoke_call>>,
                   exc |-> NoExc,
                   ret |-> STRUCTURED_RESPONSE]
        ELSE [fallback EXCEPT !.calls = <<llm_call>> \o @]

get_vision_model_response(msgs, model_name, schema, compat, o) ==
    LET llm_call == Call("get_llm", o.llm,
                         <<llm_provider(model_name), llm_temperature(model_name)>>)
        wrap_call == Call("with_structured_output", o.wrap, <<schema>>)
        sinvoke_call == Call("structured_invoke", o.sinvoke, msgs)
        fallback == UnstructuredInvocation(msgs, o)
    IN  IF ~o.llm
        THEN [calls |-> <<llm_call>>,
              exc |-> Exc("RuntimeError", <<"cannot create the model client">>),
              ret |-> NoResult]
        ELSE IF UseNativeWrapper(schema, compat)
        THEN IF ~o.wrap
             THEN [fallback EXCEPT !.calls = <<llm_call, wrap_call>> \o @]
             ELSE IF ~o.sinvoke
             THEN [fallback EXCEPT !.calls = <<llm_call, wrap_call, sinvoke_call>> \o @]
             ELSE [calls |-> <<llm_call, wrap_call, sinvoke_call>>,
                   exc |-> NoExc,
                   ret |-> STRUCTURED_RESPONSE]
        ELSE [fallback EXCEPT !.calls = <<llm_call>> \o @]

InvokeModel ==
    /\ pc = "invoke"
    /\ \E o \in LlmBehaviours :
         LET r == get_vision_model_response(messages, openai_model, structured_schema,
                                            force_compat, o)
         IN  /\ calls' = calls \o r.calls
             /\ IF r.exc # NoExc
                THEN Raise(r.exc)
                ELSE /\ ret' = r.ret
                     /\ exc' = exc
                     /\ pc' = "finally"
    /\ UNCHANGED <<inputs, disk, locals, created, removeFailed>>
    /\ UNCHANGED <<drawn, peer, advanced>>

\* ------------------------------------------------ run: the finally clause
\* A cleanup loop that stops one entry short of the end of the list.
cleanup_skips_last(names, fails) ==
    {names[i] : i \in 1..(Len(names) - 1)} \ fails

\* A cleanup loop without the try/except around os.remove: the first
\* removal that raises ends the loop.
cleanup_stops_at_first_failure(names, fails) ==
    {names[i] : i \in {k \in DOMAIN names : \A j \in 1..k : names[j] \notin fails}}

\* cleanup_temp_files: the paths it takes off the disk, given those whose
\* os.remove raises
cleanup_temp_files(names, fails) == Range(names) \ fails

Cleanup ==
    /\ pc = "finally"
    /\ \E fails \in SUBSET Range(filenames_to_delete) :
         /\ files' = files \ cleanup_temp_files(filenames_to_delete, fails)
         /\ removeFailed' = fails
         /\ calls' = calls \o [i \in 1..Len(filenames_to_delete) |->
                                 Call("os.remove", filenames_to_delete[i] \notin fails,
                                      <<filenames_to_delete[i]>>)]
    /\ pc' = "returned"
    /\ UNCHANGED <<inputs, dirs, locals, outcome, created>>
    /\ UNCHANGED <<drawn, peer, advanced>>

Next ==
    \/ CheckAgent
    \/ SelectModel
    \/ ResolveFile
    \/ ValidateMime
    \/ PrepareImages
    \/ MaterializeSearchFile
    \/ FindReference
    \/ SelectPromptAndSchema
    \/ BuildConversation
    \/ InvokeModel
    \/ Cleanup

Spec == Init /\ [][Next]_vars

\* The invocation on every layout of the three candidate paths (each one a
\* regular file, a directory or missing), with the model left to the default.
InitAnyDisk ==
    /\ InitLocals
    /\ peer_pc = "none"
    /\ NoAdvancedInvocation
    /\ agent_id \in AgentIds
    /\ input_params \in {p \in InputParams : ~p.disable_threshold_filter}
    /\ env_ocr_model = None
    /\ extra_info = ExtraInfo("none", FALSE, {}, {}, None, None)
    /\ \E d \in DiskLayouts : files = d.files /\ dirs = d.dirs

SpecAnyDisk == InitAnyDisk /\ [][Next]_vars

\* The invocation under every pairing of the environment variable with the
\* per-agent configuration, on a document found at "/app" + path.
InitAnyModel ==
    /\ InitLocals
    /\ peer_pc = "none"
    /\ NoAdvancedInvocation
    /\ agent_id \in AgentIds
    /\ input_params \in {p \in InputParams : ~p.disable_threshold_filter}
    /\ env_ocr_model \in EnvModels
    /\ extra_info \in ExtraInfos
    /\ files = {CandApp}
    /\ dirs = {}

SpecAnyModel == InitAnyModel /\ [][Next]_vars

\* ------------------------------------------------ a concurrent invocation
\* A second invocation running in the same process on a document of the same
\* directory, reduced to what it does with temp files: OcrTool.run writes one
\* search image for a PDF; OCRAdvancedTool's recopile_files writes one image
\* per page of a PDF, or one converted image for a non-JPEG image.

\* f"{folder_of_appended_file}/{uuid}image_{page_number + 1}.jpeg"
PageImageFile(url, uuid, page) ==
    [dir |-> url.dir, uuid |-> uuid, name |-> "image_{page}.jpeg", page |-> page]
\* A conversion that writes its JPEG over the file it was given.
ConvertedImageFileInPlace(url, uuid) == url
\* f"{folder_of_appended_file}/{os.urandom(16).hex()}converted_img.jpeg"
ConvertedImageFile(url, uuid) == Path(url.dir, uuid, "converted_img.jpeg")

PeerTempFiles(kind, url, uuid, n_pages) ==
    IF kind = "OcrTool.pdf" THEN {SearchFile(url, uuid)}
    ELSE IF kind = "OCRAdvancedTool.pdf"
    THEN {PageImageFile(url, uuid, n) : n \in 1..n_pages}
    ELSE {ConvertedImageFile(url, uuid)}

PeerKinds == {"OcrTool.pdf", "OCRAdvancedTool.pdf", "OCRAdvancedTool.image"}

\* The other invocation draws its token, writes its temp files and registers them.
PeerWriteTempFiles ==
    /\ peer_pc = "start"
    /\ ~get_file_path_raises(files, dirs)
    /\ \E kind \in PeerKinds, uuid \in urandom(drawn), n_pages \in 1..MaxPages :
         LET names == PeerTempFiles(kind, ResolveCandidate(files, dirs), uuid, n_pages)
         IN  /\ kind # "OCRAdvancedTool.pdf" => n_pages = 1
             /\ drawn' = drawn \cup {uuid}
             /\ files' = files \cup names
             /\ peer_files' = names
    /\ peer_pc' = "written"
    /\ UNCHANGED <<pc, inputs, dirs, locals, outcome, history, peer_reads, peer_removed,
                   advanced>>

\* The other invocation reads its temp files back (image_to_base64, the
\* similarity search).
PeerReadTempFiles ==
    /\ peer_pc = "written"
    /\ peer_reads' = peer_files \cap files
    /\ peer_pc' = "read"
    /\ UNCHANGED <<pc, inputs, disk, locals, outcome, history, drawn, peer_files,
                   peer_removed, advanced>>

\* cleanup_temp_files of the other invocation: os.remove on every registered
\* path, a failure (the file is not there) being swallowed.
PeerCleanup ==
    /\ peer_pc = "read"
    /\ peer_removed' = peer_files \cap files
    /\ files' = files \ peer_files
    /\ peer_pc' = "returned"
    /\ UNCHANGED <<pc, inputs, dirs, locals, outcome, history, drawn, peer_files,
                   peer_reads, advanced>>

InitConcurrent ==
    /\ InitLocals
    /\ peer_pc = "start"
    /\ NoAdvancedInvocation
    /\ agent_id = "agent1"
    /\ input_params \in {p \in InputParams : p.question = Absent /\ p.structured_output = None
                                              /\ ~p.force_structured_output_compat}
    /\ env_ocr_model = None
    /\ extra_info = ExtraInfo("none", FALSE, {}, {}, None, None)
    /\ files = {CandApp}
    /\ dirs = {}

NextConcurrent ==
    \/ Next
    \/ PeerWriteTempFiles
    \/ PeerReadTempFiles
    \/ PeerCleanup

SpecConcurrent == InitConcurrent /\ [][NextConcurrent]_vars

\* ------------------------------------------- cleanup_temp_files on any list
\* The finally clause entered with any list of up to MaxPages registered temp
\* files (the names the two tools generate) and any result of the try block.
TempNames ==
    {SearchFile(CandApp, 1), ConvertedImageFile(CandApp, 1)}
    \cup {PageImageFile(CandApp, 1, n) : n \in 1..MaxPages}

CleanupLists ==
    {l \in UNION {[1..n -> TempNames] : n \in 0..MaxPages} :
        \A i, j \in DOMAIN l : l[i] = l[j] => i = j}

TryBlockOutcomes ==
    { [exc |-> NoExc, ret |-> TEXT_RESPONSE],
      [exc |-> NoExc, ret |-> STRUCTURED_RESPONSE],
      [exc |-> Exc("APIError", <<"model invocation failed">>),
       ret |-> ErrorResult(Exc("APIError", <<"model invocation failed">>))] }

InitCleanup ==
    /\ pc = "finally"
    /\ peer_pc = "none"
    /\ NoAdvancedInvocation
    /\ agent_id = "agent1"
    /\ input_params \in {p \in InputParams : p.question = Absent /\ p.structured_output = None
                                              /\ ~p.force_structured_output_compat
                                              /\ ~p.disable_threshold_filter}
    /\ env_ocr_model = None
    /\ extra_info = ExtraInfo("none", FALSE, {}, {}, None, None)
    /\ filenames_to_delete \in CleanupLists
    /\ files = {CandApp} \cup Range(filenames_to_delete)
    /\ dirs = {}
    /\ created = Range(filenames_to_delete)
    /\ \E o \in TryBlockOutcomes : exc = o.exc /\ ret = o.ret
    /\ openai_model = DEFAULT_MODEL
    /\ provider = DEFAULT_PROVIDER
    /\ ocr_image_url = CandApp
    /\ mime = MIME_PDF
    /\ base64_images = <<>>
    /\ first_image_for_search = NoPath
    /\ reference_image_path = None
    /\ reference_image_base64 = None
    /\ question = <<>>
    /\ structured_schema = None
    /\ force_compat = FALSE
    /\ messages = <<>>
    /\ calls = <<>>
    /\ removeFailed = {}
    /\ drawn = {}
    /\ peer_files = {}
    /\ peer_reads = {}
    /\ peer_removed = {}

NextCleanup == Cleanup

SpecCleanup == InitCleanup /\ [][NextCleanup]_vars

\* ------------------------------------------------- OCRAdvancedTool.run
\* One step of invocation i of OCRAdvancedTool.run; the steps of different
\* invocations interleave.  The locals of OcrTool.run are not touched.
ocrTool == <<pc, inputs, locals, outcome, history, peer>>

ADV_AGENT_ID_ERROR ==
    <<"OCRAdvancedTool requires ", "agent_id", " to access the reference database. ",
      "Please ensure the tool is properly configured with an agent.">>

\* `except Exception as e: return {"error": f"An error occurred: {e}"}`
AdvRaise(a, e) == [a EXCEPT !.exc = e, !.ret = ErrorResult(e), !.pc = "finally"]

AdvCheckAgent(i) ==
    LET a == adv[i]
    IN  /\ a.pc = "start"
        /\ adv' = [adv EXCEPT ![i] =
                     IF a.agent_id = ""
                     THEN [a EXCEPT !.ret = [kind |-> "error", value |-> ADV_AGENT_ID_ERROR],
                                    !.pc = "finally"]
                     ELSE [a EXCEPT !.pc = "get_file_path"]]
        /\ UNCHANGED <<ocrTool, disk, drawn, umask>>

AdvResolveFile(i) ==
    LET a == adv[i]
        c == ResolveCandidate(files, dirs)
    IN  /\ a.pc = "get_file_path"
        /\ adv' = [adv EXCEPT ![i] =
                     IF get_file_path_raises(files, dirs)
                     THEN AdvRaise(a, Exc("FileNotFoundError",
                                          <<"Filename ", c.dir, "/doc doesn't exist">>))
                     ELSE [a EXCEPT !.ocr_image_url = c, !.pc = "read_mime"]]
        /\ UNCHANGED <<ocrTool, disk, drawn, umask>>

AdvValidateMime(i) ==
    LET a == adv[i]
    IN  /\ a.pc = "read_mime"
        /\ \E guess \in Guesses :
             LET m == read_mime(guess)
             IN  adv' = [adv EXCEPT ![i] =
                           IF checktype_raises(m)
                           THEN AdvRaise([a EXCEPT !.mime = m],
                                         Exc("ValueError", checktype_message(a.ocr_image_url, m)))
                           ELSE [a EXCEPT !.mime = m, !.pc = "recopile"]]
        /\ UNCHANGED <<ocrTool, disk, drawn, umask>>

\* recopile_files up to its first page or its converted image: the document
\* is opened and the token of its temp names is drawn.
AdvOpenDocument(i) ==
    LET a == adv[i]
    IN  /\ a.pc = "recopile"
        /\ \/ /\ adv' = [adv EXCEPT ![i] =
                           AdvRaise(a, Exc(IF a.mime = MIME_PDF THEN "PdfiumError" ELSE "OSError",
                                           <<"cannot read the document">>))]
              /\ UNCHANGED drawn
           \/ /\ a.mime = MIME_PDF
              /\ \E n \in 0..MaxPages, t \in urandom(drawn) :
                   /\ drawn' = drawn \cup {t}
                   /\ adv' = [adv EXCEPT ![i] =
                                [a EXCEPT !.n_pages = n, !.uuid = t, !.page_number = 0,
                                          !.pc = IF n = 0 THEN "prepared" ELSE "render"]]
           \/ /\ a.mime \notin {MIME_PDF, MIME_JPEG}
              /\ \E t \in urandom(drawn) :
                   /\ drawn' = drawn \cup {t}
                   /\ adv' = [adv EXCEPT ![i] =
                                [a EXCEPT !.uuid = t,
                                          !.page_image_filename =
                                              ConvertedImageFile(a.ocr_image_url, t),
                                          !.pc = "umask"]]
           \/ /\ a.mime = MIME_JPEG
              /\ adv' = [adv EXCEPT ![i] =
                           [a EXCEPT !.base64_images = <<image_to_base64(a.ocr_image_url)>>,
                                     !.pc = "prepared"]]
              /\ UNCHANGED drawn
        /\ UNCHANGED <<ocrTool, disk, umask>>

\* One turn of the page loop up to the save: the page is rendered and its
\* file name is appended to the list before anything is written.
AdvRenderPage(i) ==
    LET a == adv[i]
        name == PageImageFile(a.ocr_image_url, a.uuid, a.page_number + 1)
    IN  /\ a.pc = "render"
        /\ \/ adv' = [adv EXCEPT ![i] =
                        AdvRaise(a, Exc("PdfiumError", <<"cannot render the page">>))]
           \/ adv' = [adv EXCEPT ![i] =
                        [a EXCEPT !.page_image_filename = name,
                                  !.local_filenames = Append(@, name),
                                  !.pc = "umask"]]
        /\ UNCHANGED <<ocrTool, disk, drawn, umask>>

\* old_umask = os.umask(0o077)
AdvSetUmask(i) ==
    LET a == adv[i]
    IN  /\ a.pc = "umask"
        /\ umask' = UMASK_PRIVATE
        /\ adv' = [adv EXCEPT ![i] = [a EXCEPT !.old_umask = umask, !.pc = "save"]]
        /\ UNCHANGED <<ocrTool, disk, drawn>>

\* save and os.chmod inside the try: they return, or raise with the file
\* written or not.
AdvSave(i) ==
    LET a == adv[i]
    IN  /\ a.pc = "save"
        /\ \E saved \in {"ok", "raises_unwritten", "raises_written"} :
             /\ files' = IF saved = "raises_unwritten" THEN files
                         ELSE files \cup {a.page_image_filename}
             /\ adv' = [adv EXCEPT ![i] =
                          [a EXCEPT !.created = IF saved = "raises_unwritten" THEN @
                                                ELSE @ \cup {a.page_image_filename},
                                    !.pending = IF saved = "ok" THEN NoExc
                                                ELSE Exc("OSError", <<"cannot write the image">>),
                                    !.pc = "restore"]]
        /\ UNCHANGED <<ocrTool, dirs, drawn, umask>>

\* finally: os.umask(old_umask); then the exception goes on to run, or the
\* file is read back and the loop goes on.
AdvRestoreUmask(i) ==
    LET a == adv[i]
        read == [a EXCEPT !.base64_images = Append(@, image_to_base64(a.page_image_filename))]
    IN  /\ a.pc = "restore"
        /\ umask' = a.old_umask
        /\ adv' = [adv EXCEPT ![i] =
                     IF a.pending # NoExc
                     THEN AdvRaise([a EXCEPT !.pending = NoExc], a.pending)
                     ELSE IF a.mime = MIME_PDF
                     THEN [read EXCEPT !.page_number = @ + 1,
                                       !.pc = IF a.page_number + 1 < a.n_pages
                                              THEN "render" ELSE "prepared"]
                     ELSE [read EXCEPT !.local_filenames = Append(@, a.page_image_filename),
                                       !.pc = "prepared"]]
        /\ UNCHANGED <<ocrTool, disk, drawn>>

\* prepare_images_for_ocr returns its two lists to run, which chooses the
\* image for the similarity search and calls it.
AdvFindReference(i) ==
    LET a == adv[i]
        list == a.local_filenames
        first_image == IF a.mime = MIME_PDF /\ list # <<>> THEN list[1] ELSE a.ocr_image_url
        b == [a EXCEPT !.filenames_to_delete = list]
    IN  /\ a.pc = "prepared"
        /\ IF Exists(first_image)
           THEN \/ adv' = [adv EXCEPT ![i] =
                             [b EXCEPT !.searched = {first_image}, !.pc = "invoke"]]
                \/ adv' = [adv EXCEPT ![i] =
                             AdvRaise([b EXCEPT !.searched = {first_image}],
                                      Exc("RuntimeError", <<"similarity search failed">>))]
           ELSE adv' = [adv EXCEPT ![i] = [b EXCEPT !.pc = "invoke"]]
        /\ UNCHANGED <<ocrTool, disk, drawn, umask>>

\* build_messages and get_vision_model_response: the model's answer, or
\* the exception of the call.
AdvInvokeModel(i) ==
    LET a == adv[i]
    IN  /\ a.pc = "invoke"
        /\ \/ adv' = [adv EXCEPT ![i] =
                        [a EXCEPT !.invoked = TRUE, !.ret = TEXT_RESPONSE, !.pc = "finally"]]
           \/ adv' = [adv EXCEPT ![i] =
                        AdvRaise([a EXCEPT !.invoked = TRUE],
                                 Exc("APIError", <<"model invocation failed">>))]
        /\ UNCHANGED <<ocrTool, disk, drawn, umask>>

\* finally: cleanup_temp_files(filenames_to_delete)
AdvCleanup(i) ==
    LET a == adv[i]
    IN  /\ a.pc = "finally"
        /\ \E fails \in SUBSET Range(a.filenames_to_delete) :
             LET gone == cleanup_temp_files(a.filenames_to_delete, fails) \cap files
             IN  /\ files' = files \ gone
                 /\ adv' = [adv EXCEPT ![i] =
                              [a EXCEPT !.removed = gone,
                                        !.remove_failed = Range(a.filenames_to_delete) \ gone,
                                        !.pc = "returned"]]
        /\ UNCHANGED <<ocrTool, dirs, drawn, umask>>

AdvStep(i) ==
    \/ AdvCheckAgent(i)
    \/ AdvResolveFile(i)
    \/ AdvValidateMime(i)
    \/ AdvOpenDocument(i)
    \/ AdvRenderPage(i)
    \/ AdvSetUmask(i)
    \/ AdvSave(i)
    \/ AdvRestoreUmask(i)
    \/ AdvFindReference(i)
    \/ AdvInvokeModel(i)
    \/ AdvCleanup(i)

NextAdvanced == \E i \in Invocations : AdvStep(i)

\* Two invocations of OCRAdvancedTool.run overlapping in one process, on a
\* document found at "/app" + path; no OcrTool.run is started.
InitAdvancedConcurrent ==
    /\ InitLocals
    /\ peer_pc = "none"
    /\ agent_id = "agent1"
    /\ input_params \in {p \in InputParams : p.question = Absent /\ p.structured_output = None
                                              /\ ~p.force_structured_output_compat
                                              /\ ~p.disable_threshold_filter}
    /\ env_ocr_model = None
    /\ extra_info = ExtraInfo("none", FALSE, {}, {}, None, None)
    /\ files = {CandApp}
    /\ dirs = {}
    /\ adv = [i \in Invocations |-> AdvLocals("agent1")]
    /\ umask = UMASK_DEFAULT

SpecAdvancedConcurrent == InitAdvancedConcurrent /\ [][NextAdvanced]_vars

\* One OcrTool.run and one OCRAdvancedTool.run in the same process, each on
\* the document at the candidate paths.
InitBothTools ==
    /\ InitLocals
    /\ peer_pc = "none"
    /\ agent_id \in AgentIds
    /\ input_params \in {p \in InputParams : p.question = Absent /\ p.structured_output = None
                                              /\ ~p.force_structured_output_compat
                                              /\ ~p.disable_threshold_filter}
    /\ env_ocr_model = None
    /\ extra_info = ExtraInfo("none", FALSE, {}, {}, None, None)
    /\ \E d \in MainDiskLayouts : files = d.files /\ dirs = d.dirs
    /\ \E a \in AgentIds :
         adv = [i \in Invocations |-> IF i = 1 THEN AdvLocals(a) ELSE AdvNotRunning]
    /\ umask = UMASK_DEFAULT

NextBothTools == Next \/ NextAdvanced

SpecBothTools == InitBothTools /\ [][NextBothTools]_vars

\* ================================================================ claims
Returned == pc = "returned"
CallsOf(op) == SelectSeq(calls, LAMBDA c : c.op = op)
HasCall(op) == \E i \in DOMAIN calls : calls[i].op = op
Registered == Range(filenames_to_delete)
ModelInvoked == HasCall("invoke") \/ HasCall("structured_invoke")
LookupRaised == \E i \in DOMAIN calls :
                    calls[i].op = "find_similar_reference" /\ ~calls[i].ok

\* C1 (as stated): after run has returned, none of the temp paths registered
\* in the invocation's cleanup list still exists on disk.
C1_NoRegisteredPathLeft ==
    Returned => \A f \in Registered : ~Exists(f)

\* C1 (amended): after run has returned, os.remove has been attempted on every
\* registered path, in list order, and a registered path still exists only
\* if its removal raised.
C1_RegisteredPathLeftOnlyIfRemoveFailed ==
    Returned =>
        /\ Len(CallsOf("os.remove")) = Len(filenames_to_delete)
        /\ \A i \in DOMAIN filenames_to_delete :
              CallsOf("os.remove")[i].arg = <<filenames_to_delete[i]>>
        /\ \A f \in Registered : Exists(f) => f \in removeFailed

\* C1 witness: run returned an {error} for a PDF whose search image had been
\* written and registered, and the image has been taken off the disk.
C1_Witness ==
    /\ Returned
    /\ ret.kind = "error"
    /\ Registered # {}
    /\ \A f \in Registered : f \in created /\ ~Exists(f)

\* C2: when find_similar_reference raises, run goes on as for "no match": the
\* model is invoked with a conversation that has no reference exchange, the
\* default question is the no-reference prompt, and the lookup's error is not
\* what run returns.
C2_LookupFailureIsNoMatch ==
    Returned /\ LookupRaised =>
        /\ ModelInvoked
        /\ ret.kind # "error" \/ exc.msg # <<"similarity search failed">>
        /\ \A i \in DOMAIN messages : messages[i].role # "assistant"
        /\ input_params.question = Absent => question = GET_JSON_PROMPT

\* C3: an exception raised by any stage never leaves run: run returns the
\* mapping {"error": "An error occurred: " + message} of that exception.
C3_HardErrorsBecomeErrorMapping ==
    Returned =>
        /\ ret.kind # "raise"
        /\ exc # NoExc =>
              /\ ret.kind = "error"
              /\ ret.value = <<"An error occurred: ">> \o exc.msg

\* C3 witness: the model invocation itself failed and run returned {error}.
C3_Witness ==
    /\ Returned
    /\ exc.type = "APIError"
    /\ ret.kind = "error"
    /\ \E i \in DOMAIN calls : calls[i].op = "invoke" /\ ~calls[i].ok

\* The conversation has been built (it always holds the system message).
Built == messages # <<>>
SchemaLoaded == Truthy(structured_schema)
CallOk(op) == \E i \in DOMAIN calls : calls[i].op = op /\ calls[i].ok
CallFailed(op) == \E i \in DOMAIN calls : calls[i].op = op /\ ~calls[i].ok
Contains(text, sub) ==
    \E i \in 1..(Len(text) - Len(sub) + 1) : SubSeq(text, i, i + Len(sub) - 1) = sub
SystemMessages == {i \in DOMAIN messages : messages[i].role = "system"}

\* C4: compatibility mode is active iff the caller forced it or the selected
\* model name starts with "gpt-5"; and with a schema loaded and the model
\* client created, with_structured_output is called iff it is not active.
C4_CompatModeTruthTable ==
    Built =>
        LET forced == input_params.force_structured_output_compat
            gpt5 == StartsWith(openai_model, PFX_GPT5)
        IN  /\ force_compat <=> (forced \/ gpt5)
            /\ SchemaLoaded /\ CallOk("get_llm") =>
                  (HasCall("with_structured_output") <=> ~(forced \/ gpt5))

\* C4 witness: the flag is off, the model is a gpt-5 model, a schema is
\* loaded and the model was invoked without the native wrapper.
C4_Witness ==
    /\ Returned
    /\ ~input_params.force_structured_output_compat
    /\ StartsWith(openai_model, PFX_GPT5)
    /\ force_compat
    /\ SchemaLoaded
    /\ CallOk("invoke")
    /\ ~HasCall("with_structured_output")

NativeRaised == CallFailed("with_structured_output") \/ CallFailed("structured_invoke")

\* C5: when the native structured path raises (creating the wrapper or
\* invoking it), exactly one unstructured invocation follows with the same
\* messages, its content is what is returned, and no error of the native
\* path is raised.
C5_NativeFailureFallsBack ==
    NativeRaised =>
        /\ SchemaLoaded /\ ~force_compat
        /\ Len(CallsOf("invoke")) = 1
        /\ CallsOf("invoke")[1].arg = messages
        /\ \A i \in DOMAIN calls :
              calls[i].op = "structured_invoke" => calls[i].arg = CallsOf("invoke")[1].arg
        /\ IF CallsOf("invoke")[1].ok
           THEN ret = TEXT_RESPONSE /\ exc = NoExc
           ELSE exc = Exc("APIError", <<"model invocation failed">>)

\* C5 witness: the structured invoke raised and run returned the text of
\* the unstructured invocation.
C5_Witness ==
    /\ Returned
    /\ CallFailed("structured_invoke")
    /\ CallOk("invoke")
    /\ ret = TEXT_RESPONSE

CompatWithSchema == Built /\ force_compat /\ SchemaLoaded
SchemaJsonText == json_dumps(model_json_schema(structured_schema))

RefPresent == Truthy(reference_image_base64)
\* where build_messages puts the question
QuestionIndex == IF RefPresent THEN 5 ELSE 2
PayloadData(msg) == msg.content[1].image_url.url.data

C8_QuestionIsLastMessage ==
    Built =>
        /\ messages[Len(messages)] = TextMessage("user", question)
        /\ \A i \in DOMAIN messages :
              (messages[i].kind = "parts"
                 /\ PayloadData(messages[i]) \in Range(base64_images))
              => i < Len(messages)

\* C9: 1 + 1 + N messages without a reference and 1 + 3 + 1 + N with one,
\* and the one image of the reference exchange is the matched template's
\* image, not a document page.
C9_MessageCount ==
    Built =>
        LET n == Len(base64_images)
        IN  /\ ~RefPresent => Len(messages) = 1 + 1 + n
            /\ RefPresent =>
                  /\ Len(messages) = 1 + 3 + 1 + n
                  /\ {j \in 2..4 : messages[j].kind = "parts"} = {3}
                  /\ Len(messages[3].content) = 1
                  /\ PayloadData(messages[3]) = reference_image_base64
                  /\ PayloadData(messages[3]) = Str(TemplateB64.v)
                  /\ PayloadData(messages[3]) \notin Range(base64_images)

\* C9 witness: a three-page PDF with a reference found: eight messages.
C9_Witness ==
    /\ Returned
    /\ mime = MIME_PDF
    /\ Len(base64_images) = 3
    /\ RefPresent
    /\ Len(messages) = 8

ZeroPagePdf == \E i \in DOMAIN calls :
                   /\ calls[i].op = "pdfium.PdfDocument"
                   /\ calls[i].ok
                   /\ calls[i].arg = <<0>>

\* C10: a PDF with zero pages is a hard error: run returns {error} and
\* neither the reference lookup nor the model is called.
C10_ZeroPagePdfIsHardError ==
    Returned /\ ZeroPagePdf =>
        /\ ret.kind = "error"
        /\ ~HasCall("find_similar_reference")
        /\ ~HasCall("get_llm")
        /\ ~ModelInvoked

FlatImageMimes == {MIME_JPEG, MIME_PNG, MIME_WEBP, MIME_GIF}
\* The document was opened by recopile_files, which then ran to its end.
OpenedAs(op) == \E i \in DOMAIN calls : calls[i].op = op /\ calls[i].ok
\* len(pdf) of the document that was opened
PdfPageCount == CallsOf("pdfium.PdfDocument")[1].arg[1]

\* C11: a PDF of N pages gives exactly N encoded images, image i being the
\* JPEG of page i of the document; a flat image (JPEG, PNG, WEBP, GIF) gives
\* exactly one.
C11_OneImagePerPageInPageOrder ==
    /\ OpenedAs("pdfium.PdfDocument") =>
          /\ mime = MIME_PDF
          /\ Len(base64_images) = PdfPageCount
          /\ \A i \in 1..PdfPageCount :
                B64Decode(base64_images[i]) = JpegBytes(Pixels("pdf", i))
    /\ OpenedAs("Image.open") \/ OpenedAs("open") =>
          /\ mime \in FlatImageMimes
          /\ Len(base64_images) = 1
    /\ mime \in FlatImageMimes /\ base64_images # <<>> => Len(base64_images) = 1

\* C11 witness: a PDF of three pages was rasterized into three images, the
\* last of them the third page.
C11_Witness ==
    /\ OpenedAs("pdfium.PdfDocument")
    /\ PdfPageCount = 3
    /\ Len(base64_images) = 3
    /\ B64Decode(base64_images[3]).pixels = Pixels("pdf", 3)

\* read_mime and checktype have run on the resolved path.
MimeChecked == ocr_image_url # NoPath /\ pc # "read_mime"
Rasterizing == pc = "prepare" \/ HasCall("pdfium.PdfDocument")
                   \/ HasCall("Image.open") \/ HasCall("open")

\* C12: checktype accepts the MIME value iff it is image/jpeg, image/png,
\* image/webp, image/gif or application/pdf; any other value, None included,
\* is rejected with a ValueError whose message names the offending MIME and
\* the supported formats, and run goes no further.
C12_ChecktypeAcceptsSupportedOnly ==
    MimeChecked =>
        IF mime \in {"image/jpeg", "image/png", "image/webp", "image/gif", "application/pdf"}
        THEN exc.type # "ValueError" /\ Rasterizing
        ELSE /\ exc.type = "ValueError"
             /\ ~Rasterizing
             /\ Contains(exc.msg, <<" invalid file format with mime ", mime>>)
             /\ \E i \in DOMAIN exc.msg :
                   /\ exc.msg[i] = ". Supported formats: "
                   /\ \A m \in {"image/jpeg", "image/png", "image/webp",
                                 "image/gif", "application/pdf"} :
                         \E j \in (i + 1)..Len(exc.msg) : exc.msg[j] = m

\* C12 witness: sniffing found nothing, read_mime gave None, and run returned
\* the {error} of checktype's ValueError.
C12_Witness ==
    /\ Returned
    /\ MimeChecked
    /\ mime = MIME_NONE
    /\ exc.type = "ValueError"
    /\ ret.kind = "error"
    /\ Contains(ret.value, <<" invalid file format with mime ", "None">>)

\* get_file_path has run.
Resolved == agent_id # "" /\ pc \notin {"start", "get_llm_model", "get_file_path"}
\* The positions in the candidate order that hold a regular file.
RegularCandidates == {i \in DOMAIN Candidates : IsFile(Candidates[i])}

\* C13: get_file_path returns the first of "/app" + path, ".." + path, path
\* that is an existing regular file, and raises FileNotFoundError only if
\* none of the three is one.
C13_FirstRegularFileWins ==
    Resolved =>
        IF RegularCandidates = {}
        THEN exc.type = "FileNotFoundError"
        ELSE /\ exc.type # "FileNotFoundError"
             /\ \E i \in RegularCandidates :
                   /\ ocr_image_url = Candidates[i]
                   /\ \A j \in RegularCandidates : i <= j

\* get_llm_model has run.
ModelSelected == agent_id # "" /\ pc \notin {"start", "get_llm_model"}
\* The configuration holds an entry for this agent and the OCR tool that
\* names a model.
ConfigEntryForAgent ==
    /\ extra_info.kind = "dict"
    /\ extra_info.has_tool_config
    /\ agent_id \in extra_info.agents
    /\ "EB58EEA0AA804C219C4D64260550745A" \in extra_info.tools
    /\ extra_info.model # None

\* C14: a set COPILOT_OCRTOOL_MODEL is the model returned, and the per-agent
\* configuration is then not read at all; otherwise the model and provider
\* of the configuration's entry for this agent and the OCR tool are
\* returned; otherwise (no entry, an entry naming no model, a configuration
\* of another shape, get_extra_info raising) the pair (gpt-5-mini, openai).
C14_ModelSelectionPrecedence ==
    ModelSelected =>
        IF env_ocr_model # None /\ env_ocr_model.v # <<>>
        THEN /\ openai_model = env_ocr_model.v
             /\ provider \in {Str(<<"openai">>), Str(<<"gemini">>)}
             /\ provider = Str(<<"gemini">>) <=> StartsWith(env_ocr_model.v, PFX_GEMINI)
             /\ ~HasCall("get_extra_info")
        ELSE /\ Len(CallsOf("get_extra_info")) = 1
             /\ IF ConfigEntryForAgent
                THEN openai_model = extra_info.model.v /\ provider = extra_info.provider
                ELSE /\ openai_model = <<"g", "p", "t", "-", "5", "-", "m", "i", "n", "i">>
                     /\ provider = Str(<<"openai">>)

\* C14 witness: the environment names gpt-4o while the configuration has an
\* entry for this agent naming a gemini model; gpt-4o was the model invoked
\* and the configuration was never read.
C14_Witness ==
    /\ Returned
    /\ env_ocr_model = Str(GPT_4O)
    /\ ConfigEntryForAgent
    /\ extra_info.model = Str(GEMINI_FLASH)
    /\ openai_model = GPT_4O
    /\ provider = Str(<<"openai">>)
    /\ ~HasCall("get_extra_info")
    /\ CallOk("invoke")

ModelInvocations == {i \in DOMAIN calls : calls[i].op \in {"invoke", "structured_invoke"}}
\* The temperature get_llm was given for the client that made call i.
ClientTemperature(i) ==
    LET j == CHOOSE k \in 1..(i - 1) : calls[k].op = "get_llm" /\ calls[k].ok
    IN  calls[j].arg[2]

\* C15: every model invocation, structured or unstructured (the fallback
\* included), is made by the one client of the invocation, created at
\* temperature 1 if the model name starts with "gpt-5" and at 0 otherwise.
C15_TemperaturePolicy ==
    \A i \in ModelInvocations :
        /\ Len(CallsOf("get_llm")) = 1
        /\ \E k \in 1..(i - 1) : calls[k].op = "get_llm" /\ calls[k].ok
        /\ ClientTemperature(i) =
              IF Len(openai_model) >= 5
                 /\ SubSeq(openai_model, 1, 5) = <<"g", "p", "t", "-", "5">>
              THEN 1 ELSE 0

\* C15 witness: with gpt-4o the structured invocation raised and the
\* unstructured one answered, both at temperature 0.
C15_Witness ==
    /\ Returned
    /\ openai_model = GPT_4O
    /\ CallFailed("structured_invoke")
    /\ CallOk("invoke")
    /\ \A i \in ModelInvocations : ClientTemperature(i) = 0

\* C16: every temp file the invocation has written is in its cleanup list
\* from the moment it is written, and none of them exists once run has
\* returned, whatever the outcome.
C16_TempFilesRegisteredAtCreation ==
    /\ \A f \in created : f \in Registered
    /\ Returned => \A f \in created : ~Exists(f)

\* Paths this invocation handed to the similarity search or to os.remove.
PathsGivenTo(op) == {calls[i].arg[1] : i \in {k \in DOMAIN calls : calls[k].op = op}}

\* C17: two invocations that overlap, on documents of the same directory,
\* never generate the same temp filename: neither writes a path the other
\* wrote, neither reads or removes a temp file of the other, and a temp
\* file stays on disk until the cleanup of the invocation that wrote it.
C17_TempFilesArePerInvocation ==
    /\ created \cap peer_files = {}
    /\ PathsGivenTo("find_similar_reference") \cap peer_files = {}
    /\ PathsGivenTo("os.remove") \cap peer_files = {}
    /\ peer_reads \cap created = {}
    /\ peer_removed \cap created = {}
    /\ peer_pc \in {"read", "returned"} => peer_reads = peer_files
    /\ peer_pc = "returned" => peer_removed = peer_files
    /\ pc # "returned" => \A f \in Registered : Exists(f)

\* C17 witness: both invocations have a search image of a PDF on disk in the
\* same directory at the same time, under different names.
C17_Witness ==
    /\ peer_pc = "written"
    /\ pc = "find_reference"
    /\ \E f \in created, g \in peer_files :
          /\ f # g
          /\ f.dir = g.dir
          /\ f.name = "_search.jpeg" /\ g.name = "_search.jpeg"
          /\ Exists(f) /\ Exists(g)
          /\ f \in Registered

\* The place of each position of run, and of each collaborator call, in the
\* order of the pipeline's stages.
StageRank(p) ==
    CASE p = "start" -> 0
      [] p = "get_llm_model" -> 1
      [] p = "get_file_path" -> 2
      [] p = "read_mime" -> 3
      [] p = "prepare" -> 4
      [] p = "materialize" -> 5
      [] p = "find_reference" -> 6
      [] p = "select_prompt" -> 7
      [] p = "build" -> 8
      [] p = "invoke" -> 9
      [] p = "finally" -> 10
      [] p = "returned" -> 11
StageOfCall(op) ==
    CASE op = "get_extra_info" -> 1
      [] op \in {"pdfium.PdfDocument", "Image.open", "open"} -> 4
      [] op = "find_similar_reference" -> 6
      [] op = "model_json_schema" -> 8
      [] op \in {"get_llm", "with_structured_output", "structured_invoke", "invoke"} -> 9
      [] op = "os.remove" -> 10
CallsOfStage(n) == {i \in DOMAIN calls : StageOfCall(calls[i].op) = n}
InputRejected == exc.type \in {"FileNotFoundError", "ValueError"}

StagesInOrder ==
    /\ \A i, j \in DOMAIN calls :
          i < j => StageOfCall(calls[i].op) <= StageOfCall(calls[j].op)
    /\ \A n \in {4, 6, 8} : Cardinality(CallsOfStage(n)) <= 1
    /\ Len(CallsOf("get_llm")) <= 1
    /\ \A i \in DOMAIN calls : StageOfCall(calls[i].op) < 10 => StageOfCall(calls[i].op) < StageRank(pc)
    /\ CallsOfStage(10) # {} => Returned
    /\ Returned => Len(CallsOf("os.remove")) = Len(filenames_to_delete)
    /\ InputRejected =>
          /\ \A n \in {4, 6, 8, 9} : CallsOfStage(n) = {}
          /\ base64_images = <<>> /\ messages = <<>>
          /\ pc \in {"finally", "returned"}

\* C18: within one invocation run only moves forward through its stages
\* (resolve, validate, rasterize, reference lookup, build, invoke), each
\* entered at most once, with the cleanup after all of them and before run
\* returns; and once resolution or validation has failed, no rasterization,
\* reference lookup, conversation or model call is made.
C18_StagesStrictlyForward ==
    /\ []StagesInOrder
    /\ [][StageRank(pc') > StageRank(pc) /\ (pc' = "returned" => pc = "finally")]_pc

\* C18 witness: a TIFF input: run returned the {error} of validation having
\* called nothing beyond the configuration lookup.
C18_Witness ==
    /\ Returned
    /\ mime = MIME_TIFF
    /\ ret.kind = "error"
    /\ InputRejected
    /\ \A i \in DOMAIN calls : calls[i].op = "get_extra_info"

INVOCATION_ERROR == <<"model invocation failed">>

\* C19: in one invocation the model is invoked at most once unstructured,
\* after at most one native structured attempt; when the unstructured
\* invocation raises, no model call follows it and run returns {error}
\* with the message of that exception.
C19_FailedInvocationIsNotRetried ==
    /\ Len(CallsOf("invoke")) <= 1
    /\ Len(CallsOf("structured_invoke")) <= 1
    /\ Len(CallsOf("with_structured_output")) <= 1
    /\ \A i, j \in DOMAIN calls :
          calls[i].op = "invoke" /\ calls[j].op \in {"with_structured_output", "structured_invoke"}
          => j < i
    /\ \A i \in DOMAIN calls :
          calls[i].op = "invoke" /\ ~calls[i].ok =>
              /\ \A j \in (i + 1)..Len(calls) : calls[j].op = "os.remove"
              /\ pc \in {"finally", "returned"}
              /\ exc.msg = INVOCATION_ERROR
              /\ ret = [kind |-> "error", value |-> <<"An error occurred: ">> \o INVOCATION_ERROR]

\* C19 witness: the native structured invocation raised, the unstructured
\* one raised too, and run returned its {error} after two model calls.
C19_Witness ==
    /\ Returned
    /\ Len(CallsOf("structured_invoke")) = 1
    /\ CallFailed("structured_invoke")
    /\ Len(CallsOf("invoke")) = 1
    /\ CallFailed("invoke")
    /\ ret.kind = "error"
    /\ Contains(ret.value, INVOCATION_ERROR)

\* The os.remove calls the step has added to the log.
NewCalls == SubSeq(calls', Len(calls) + 1, Len(calls'))

\* C20: the finally clause calls os.remove on every registered path, in
\* list order, whichever of them raise; every path whose removal did not
\* raise is gone; nothing is raised, and what run returns is the result of
\* the try block, the same as when every removal succeeds.
C20_CleanupFailureIsSwallowed ==
    [][pc = "finally" =>
          /\ pc' = "returned"
          /\ ret' = ret /\ exc' = exc
          /\ Len(NewCalls) = Len(filenames_to_delete)
          /\ \A i \in DOMAIN filenames_to_delete :
                /\ NewCalls[i].op = "os.remove"
                /\ NewCalls[i].arg = <<filenames_to_delete[i]>>
                /\ NewCalls[i].ok <=> filenames_to_delete[i] \notin files'
                /\ ~NewCalls[i].ok <=> filenames_to_delete[i] \in removeFailed'
    ]_vars

\* C20 witness: of three registered files the first could not be removed;
\* the two after it are gone and run returned the model's text.
C20_Witness ==
    /\ Returned
    /\ Len(filenames_to_delete) = 3
    /\ removeFailed = {filenames_to_delete[1]}
    /\ Exists(filenames_to_delete[1])
    /\ ~Exists(filenames_to_delete[2]) /\ ~Exists(filenames_to_delete[3])
    /\ Len(CallsOf("os.remove")) = 3
    /\ ret = TEXT_RESPONSE

\* The image for the similarity search has been chosen.
SearchImageChosen == first_image_for_search # NoPath

\* C21: prepare_images_for_ocr writes and registers no temp file; the choice
\* of the search image writes exactly one temp file for a PDF with at least
\* one page, which is the path given to the search and is in the cleanup
\* list, and none for a flat image, where the original path is given.
C21_OnlyTheSearchImageIsMaterialized ==
    /\ pc = "materialize" => created = {} /\ filenames_to_delete = <<>>
    /\ Cardinality(created) <= 1
    /\ \A f \in created : f \in Registered
    /\ \A f \in Registered : f \in created
    /\ SearchImageChosen =>
          IF mime = MIME_PDF /\ Len(base64_images) >= 1
          THEN created = {first_image_for_search}
          ELSE created = {} /\ first_image_for_search = ocr_image_url
    /\ PathsGivenTo("find_similar_reference") \subseteq {first_image_for_search}

\* An invocation of either tool whose agent_id is empty has got past its check.
OcrToolRefused == agent_id = "" /\ pc \in {"finally", "returned"}
AdvRefused(i) == adv[i].agent_id = "" /\ adv[i].pc \in {"finally", "returned"}

NoAgentNoWork ==
    /\ agent_id = "" => pc \in {"start", "finally", "returned"}
    /\ OcrToolRefused =>
          /\ ret.kind = "error"
          /\ Contains(ret.value, <<"agent_id">>)
          /\ ocr_image_url = NoPath
          /\ base64_images = <<>>
          /\ calls = <<>>
          /\ filenames_to_delete = <<>>
          /\ created = {}
    /\ \A i \in Invocations :
          /\ adv[i].agent_id = "" => adv[i].pc \in {"none", "start", "finally", "returned"}
          /\ AdvRefused(i) =>
                /\ adv[i].ret.kind = "error"
                /\ Contains(adv[i].ret.value, <<"agent_id">>)
                /\ adv[i].ocr_image_url = NoPath
                /\ adv[i].base64_images = <<>>
                /\ adv[i].searched = {}
                /\ ~adv[i].invoked
                /\ adv[i].filenames_to_delete = <<>>
                /\ adv[i].created = {}

\* C22: a tool without agent_id returns an {error} that mentions agent_id,
\* having resolved no file, rasterized nothing, called neither the reference
\* lookup nor the model; and run returns only through the cleanup step,
\* which is given an empty list.
C22_NoAgentIdIsRefusedUpFront ==
    /\ []NoAgentNoWork
    /\ [][agent_id = "" /\ pc' = "returned" => pc = "finally" /\ filenames_to_delete = <<>>]_pc
    /\ [][\A i \in Invocations :
            adv[i].agent_id = "" /\ adv'[i].pc = "returned" /\ adv[i].pc # "returned"
            => adv[i].pc = "finally" /\ adv[i].filenames_to_delete = <<>>]_adv

\* C22 witness: both tools were run without agent_id and both have returned
\* their {error}.
C22_Witness ==
    /\ Returned
    /\ OcrToolRefused
    /\ ret.value = AGENT_ID_ERROR
    /\ adv[1].pc = "returned"
    /\ AdvRefused(1)
    /\ adv[1].ret.value = ADV_AGENT_ID_ERROR

\* find_similar_reference returned the pair (None, None).
NoMatch ==
    /\ CallOk("find_similar_reference")
    /\ reference_image_path = None
    /\ reference_image_base64 = None
LaterStageFailed ==
    exc.type \in {"SyntaxError", "RuntimeError", "APIError"} \/ CallFailed("model_json_schema")

\* C23: when the lookup returns (None, None) run goes on without an error:
\* the conversation has no reference exchange (system, question, one message
\* per document image), the default question is the prompt without a
\* reference, and with no schema the result is the text content of the
\* model's reply.
C23_NoMatchIsNormal ==
    NoMatch =>
        /\ pc # "find_reference"
        /\ exc.msg # <<"similarity search failed">>
        /\ Returned /\ ~LaterStageFailed => ret.kind \in {"text", "structured"}
        /\ question # <<>> /\ input_params.question = Absent => question = GET_JSON_PROMPT
        /\ Built =>
              /\ Len(messages) = 2 + Len(base64_images)
              /\ \A i \in DOMAIN messages : messages[i].role # "assistant"
              /\ \A i \in DOMAIN messages : messages[i] # TextMessage("user", REFERENCE_INTRO)
              /\ messages[2] = TextMessage("user", question)
        /\ Returned /\ structured_schema = None /\ CallOk("invoke") =>
              /\ ret = TEXT_RESPONSE
              /\ ~HasCall("with_structured_output")

\* C23 witness: a PNG, no schema, no question, no reference found: run
\* returned the model's text and left no temp file.
C23_Witness ==
    /\ Returned
    /\ NoMatch
    /\ mime = MIME_PNG
    /\ Len(base64_images) = 1
    /\ input_params.structured_output = None
    /\ input_params.question = Absent
    /\ question = GET_JSON_PROMPT
    /\ Len(messages) = 3
    /\ ret = TEXT_RESPONSE
    /\ created = {}

GEMINI == Str(<<"gemini">>)
OPENAI == Str(<<"openai">>)
\* The conversation run builds from its locals when the provider is prov.
ConversationFor(prov) ==
    build_messages(base64_images, question, reference_image_base64,
                   read_structured_output(None, force_compat, structured_schema,
                                          CallFailed("model_json_schema")),
                   prov)
ImageParts(msgs) ==
    {msgs[i].content[k] : i \in {j \in DOMAIN msgs : msgs[j].kind = "parts"}, k \in {1}}
GeminiShaped(part) == DOMAIN part.image_url = {"url"}
OpenAIShaped(part) == DOMAIN part.image_url = {"url", "detail"} /\ part.image_url.detail = "high"

\* C24: every image part of the conversation, reference and pages alike,
\* has no "detail" field for provider gemini and detail "high" for any
\* other provider; and the conversation built for gemini and the one built
\* for openai have the same length, the same roles in the same order, the
\* same text messages and the same image data.
C24_ProviderChangesImageShapeOnly ==
    Built =>
        LET g == ConversationFor(GEMINI)
            o == ConversationFor(OPENAI)
        IN  /\ messages = ConversationFor(provider)
            /\ \A part \in ImageParts(messages) :
                  IF provider = GEMINI THEN GeminiShaped(part) ELSE OpenAIShaped(part)
            /\ Cardinality({i \in DOMAIN messages : messages[i].kind = "parts"})
                  = Len(base64_images) + (IF RefPresent THEN 1 ELSE 0)
            /\ Len(g) = Len(o)
            /\ \A i \in DOMAIN g :
                  /\ g[i].role = o[i].role
                  /\ g[i].kind = o[i].kind
                  /\ g[i].kind = "text" => g[i] = o[i]
                  /\ g[i].kind = "parts" =>
                        /\ Len(g[i].content) = Len(o[i].content)
                        /\ g[i].content[1].type = o[i].content[1].type
                        /\ g[i].content[1].image_url.url = o[i].content[1].image_url.url
                        /\ GeminiShaped(g[i].content[1])
                        /\ OpenAIShaped(o[i].content[1])

\* C24 witness: a gemini model, a reference and a two-page PDF: three image
\* parts, none with a "detail" field.
C24_Witness ==
    /\ Built
    /\ provider = GEMINI
    /\ RefPresent
    /\ Len(base64_images) = 2
    /\ Cardinality(ImageParts(messages)) = 3
    /\ \A part \in ImageParts(messages) : GeminiShaped(part)

\* The paths recopile_files appended to the list it was given.
AdvListed(i) == Range(adv[i].local_filenames)

\* C25: when an OCRAdvancedTool.run has returned, whatever the exit path,
\* no temp path listed during rasterization is left on disk (unless its
\* removal was attempted and raised).
C25_AdvancedDeletesEveryListedPath ==
    \A i \in Invocations :
        adv[i].pc = "returned" =>
            \A f \in AdvListed(i) : Exists(f) => f \in adv[i].remove_failed

\* The files an invocation of either tool wrote, listed for removal or removed.
OcrToolTouched == created \cup Registered
AdvTouched(i) == adv[i].created \cup Range(adv[i].filenames_to_delete) \cup adv[i].removed

SourceDocumentKept ==
    /\ ocr_image_url # NoPath =>
           /\ IsFile(ocr_image_url)
           /\ ocr_image_url \notin OcrToolTouched
    /\ Registered \subseteq created
    /\ \A i \in Invocations :
           /\ adv[i].ocr_image_url # NoPath =>
                  /\ IsFile(adv[i].ocr_image_url)
                  /\ adv[i].ocr_image_url \notin AdvTouched(i)
           /\ Range(adv[i].filenames_to_delete) \subseteq adv[i].created

\* C26: neither OcrTool.run nor OCRAdvancedTool.run writes to, lists for
\* deletion or deletes the resolved source document: it is a file from
\* the moment it is resolved until after run has returned, no step removes
\* it, and the list given to the cleanup holds only files the invocation
\* wrote itself.
C26_SourceDocumentIsNeverTouched ==
    /\ []SourceDocumentKept
    /\ [][\A i \in Invocations :
              /\ adv[i].ocr_image_url # NoPath => adv[i].ocr_image_url \in files'
              /\ ocr_image_url # NoPath => ocr_image_url \in files']_vars

\* Both tools have returned after writing and removing temp files next to
\* their source documents: a PDF for OcrTool, a non-JPEG image or a PDF for
\* OCRAdvancedTool.
C26_Witness ==
    /\ pc = "returned" /\ mime = MIME_PDF /\ created # {} /\ created \cap files = {}
    /\ adv[1].pc = "returned" /\ adv[1].removed # {}
    /\ IsFile(ocr_image_url) /\ IsFile(adv[1].ocr_image_url)

\* Every OCRAdvancedTool invocation that was started has returned.
AllAdvancedReturned ==
    /\ \A i \in Invocations : adv[i].pc \in {"none", "returned"}
    /\ \E i \in Invocations : adv[i].pc = "returned"

\* C27: once the concurrently running OCRAdvancedTool invocations have all
\* returned, the process-wide umask is the one the process had before they
\* started.
C27_UmaskRestoredAfterConcurrentRuns ==
    AllAdvancedReturned => umask = UMASK_DEFAULT

\* run fell back to the default question, and the conversation is built.
DefaultQuestionUsed == Built /\ input_params.question = Absent
\* The conversation holds the introduction of the reference image.
HasReferenceExchange ==
    \E i \in DOMAIN messages : messages[i] = TextMessage("user", REFERENCE_INTRO)

\* C28: whenever run fell back to its default question, that question is
\* the reference-based prompt iff the conversation contains the
\* reference-image exchange, for every pair the matcher returned.
C28_ReferencePromptIffReferenceExchange ==
    DefaultQuestionUsed =>
        (question = GET_JSON_WITH_REFERENCE_PROMPT <=> HasReferenceExchange)

\* The provider get_vision_model_response gave to get_llm.
ClientProviders == {calls[i].arg[1] : i \in {j \in DOMAIN calls : calls[j].op = "get_llm"}}

\* C29: once the model client has been created, the image parts of the
\* conversation are Gemini-shaped iff the client was created for provider
\* gemini, whatever (model, provider) pair get_llm_model returned.
C29_ImageShapeMatchesClientProvider ==
    \A prov \in ClientProviders :
        \A part \in ImageParts(messages) :
            GeminiShaped(part) <=> prov = GEMINI

\* structured_output names a schema and load_schema returned None for it.
SchemaNotFound ==
    /\ Truthy(input_params.structured_output)
    /\ structured_schema = None
    /\ pc = "build" \/ Built

====
